---- MODULE Spec2Model ----
(***************************************************************************)
(* Model of the ContinuousCo feedback-form application (src/app/app.py on  *)
(* top of src/app/database.py): registration and sessions, form creation   *)
(* under a random public token, anonymous answer submission, AI summaries  *)
(* with e-mail notification, and form deletion, on both storage backends.  *)
(*                                                                         *)
(* Text is modelled as a sequence of one-character strings so that         *)
(* str.strip() and str.lower() are computed, not assumed.                  *)
(***************************************************************************)
EXTENDS Integers, Sequences, FiniteSets, TLC

VARIABLES
    backend,       \* "sqlite" | "postgres"            (database.py _is_postgres)
    uniqueToken,   \* whether forms.public_id carries a UNIQUE index in the database
    phase,         \* "boot" (module import) | "serving" | "crashed"
    users,         \* table users        : rows [id, email, password_hash]
    forms,         \* table forms        : rows [id, public_id, owner_id, title]
    questions,     \* table questions    : rows [id, form_id, question_text, position]
    answers,       \* table answers      : rows [id, form_id, question_id, answer_text]
    ai_summaries,  \* table ai_summaries : rows [id, form_id, summary_text]
    seq,           \* next AUTOINCREMENT / SERIAL value of each table
    session,       \* the browser's Flask session: [user_id, email]
    resp,          \* the last request and the response it got
    inflight       \* requests being served by other workers, between two statements

tables == <<users, forms, questions, answers, ai_summaries, seq>>
config == <<backend, uniqueToken>>
vars == <<backend, uniqueToken, phase, users, forms, questions, answers,
          ai_summaries, seq, session, resp, inflight>>

-----------------------------------------------------------------------------
(* Bounds of the model *)

MaxUsers == 2        \* user ids handed out
MaxForms == 2        \* form ids handed out (legacy rows included)
MaxAnswers == 2      \* answer ids handed out
MaxSummaries == 2    \* summary ids handed out

(* Program constant: for _ in range(10) in create_form *)
MaxAttempts == 10

NULL == "NULL"       \* SQL NULL in forms.public_id
NoUser == 0          \* "user_id" not in session
Empty == <<>>        \* the empty string

Tokens == {"tokA", "tokB"}          \* values of secrets.token_urlsafe(6)
Salts == {"salt1"}                  \* salts drawn by generate_password_hash

-----------------------------------------------------------------------------
(* Text helpers: Python str.strip() and str.lower() *)

RECURSIVE LStrip(_)
LStrip(s) == IF s = <<>> THEN s
             ELSE IF Head(s) = " " THEN LStrip(Tail(s)) ELSE s

RECURSIVE RStrip(_)
RStrip(s) == IF s = <<>> THEN s
             ELSE IF s[Len(s)] = " " THEN RStrip(SubSeq(s, 1, Len(s) - 1)) ELSE s

Strip(s) == RStrip(LStrip(s))

LowerChar(c) == CASE c = "A" -> "a"
                  [] c = "B" -> "b"
                  [] OTHER -> c

Lower(s) == [i \in 1..Len(s) |-> LowerChar(s[i])]

(* request.form["email"].strip().lower() *)
NormEmail(raw) == Lower(Strip(raw))

-----------------------------------------------------------------------------
(* werkzeug.security: a salted one-way hash and its verification *)

generate_password_hash(password, salt) ==
    [salt |-> salt, digest |-> <<salt, password>>]

check_password_hash(h, password) == h.digest = <<h.salt, password>>

-----------------------------------------------------------------------------
(* The session and the response record *)

NoSession == [user_id |-> NoUser, email |-> Empty]

Response(op, status, in, out) == [op |-> op, status |-> status, in |-> in, out |-> out]

NoOut == [none |-> TRUE]

(* mutation: the decorator lets every caller through *)
login_required_NoCheck == TRUE

(* login_required: the wrapped view runs only if "user_id" is in the session *)
login_required == session.user_id # NoUser

(* what every wrapped handler does for a caller without a session *)
RedirectToLogin(op, in) ==
    /\ ~login_required
    /\ resp' = Response(op, "redirect_login", in, NoOut)
    /\ UNCHANGED <<tables, session, config, inflight, phase>>

-----------------------------------------------------------------------------
(* The database the process starts on.  init_db() creates the five tables   *)
(* only if they are missing, so rows written by earlier runs are kept:      *)
(* legacy forms are rows that predate the public_id column and hold NULL.   *)

MaxLegacy == 2       \* legacy forms found at start-up

(* users registered by earlier runs: "a" then "b", both with password "p" *)
StoredUser(i) == [id |-> i, email |-> IF i = 1 THEN <<"a">> ELSE <<"b">>,
                  password_hash |-> generate_password_hash(<<"p">>, "salt1")]

LegacyForm(i) == [id |-> i, public_id |-> NULL, owner_id |-> 1, title |-> <<"t">>]

LegacyQuestion(i) == [id |-> i, form_id |-> i, question_text |-> <<"q">>, position |-> 1]

(* the state at import time on a database holding nu users and nl legacy forms *)
InitDB(nu, nl) ==
    /\ phase = "boot"
    /\ users = {StoredUser(i) : i \in 1..nu}
    /\ forms = {LegacyForm(i) : i \in 1..nl}
    /\ questions = {LegacyQuestion(i) : i \in 1..nl}
    /\ seq = [users |-> nu + 1, forms |-> nl + 1, questions |-> nl + 1,
              answers |-> 1, ai_summaries |-> 1]
    /\ answers = {}
    /\ ai_summaries = {}
    /\ session = NoSession
    /\ resp = Response("init", "none", NoOut, NoOut)
    /\ inflight = {}

Init ==
    /\ backend \in {"sqlite", "postgres"}
    /\ uniqueToken \in BOOLEAN
    /\ \E nu \in 0..MaxUsers, nl \in 0..MaxLegacy :
         /\ nl > 0 => nu > 0
         /\ InitDB(nu, nl)

-----------------------------------------------------------------------------
(* Constraints the storage engine enforces *)

(* An INSERT or UPDATE putting token tok into forms.public_id is rejected     *)
(* only by a UNIQUE index, and only against rows other than `self`.          *)
(* init_db() declares no such index (its CREATE TABLE forms does not even    *)
(* name public_id), while create_form catches the rejection and retries: so  *)
(* whether the database at hand has the index is part of the configuration   *)
(* (uniqueToken), and both cases are explored.                               *)
UniqueViolation(rows, tok, self) ==
    uniqueToken /\ \E f \in rows : f.id # self /\ f.public_id = tok

(* mutation: the users table without its UNIQUE(email) constraint *)
EmailTaken_NoConstraint(email) == FALSE

(* users.email is declared UNIQUE on both backends *)
EmailTaken(email) == \E u \in users : u.email = email

-----------------------------------------------------------------------------
(* Module import: backfill of public_id for legacy forms (app.py 58-69).    *)
(* Every legacy row gets a fresh random token in one transaction; a         *)
(* rejected UPDATE raises at import, nothing is committed and the process   *)
(* does not come up.  (The SELECT also takes public_id = '', a value no     *)
(* statement of the program writes.)                                        *)

BackfillRows == {f \in forms : f.public_id = NULL}

Backfilled(assign) ==
    {IF f.public_id = NULL THEN [f EXCEPT !.public_id = assign[f.id]] ELSE f : f \in forms}

Backfill ==
    /\ phase = "boot"
    /\ \E assign \in [{f.id : f \in BackfillRows} -> Tokens] :
         LET after == Backfilled(assign)
             rejected == \E f \in BackfillRows : UniqueViolation(after, assign[f.id], f.id)
         IN  /\ forms' = IF rejected THEN forms ELSE after
             /\ phase' = IF rejected THEN "crashed" ELSE "serving"
             /\ resp' = Response("backfill", IF rejected THEN "raised" ELSE "ok",
                                 [assign |-> assign], NoOut)
    /\ UNCHANGED <<users, questions, answers, ai_summaries, seq, session, config, inflight>>

-----------------------------------------------------------------------------
(* Session & identity *)

(* POST /login (GET only renders the page).  fetchone() yields the row of   *)
(* the normalised e-mail, if any; the session is written only when that     *)
(* row's hash verifies the password.                                         *)
login(emailRaw, password) ==
    /\ phase = "serving"
    /\ LET email == NormEmail(emailRaw)
           found == {u \in users : u.email = email}
           in == [email |-> emailRaw, password |-> password]
           refused == /\ session' = session
                      /\ resp' = Response("login", "invalid_email_or_password", in, NoOut)
       IN  \/ found = {} /\ refused
           \/ \E user \in found :
                IF check_password_hash(user.password_hash, password)
                THEN /\ session' = [user_id |-> user.id, email |-> user.email]
                     /\ resp' = Response("login", "redirect_dashboard", in,
                                         [user_id |-> user.id])
                ELSE refused
    /\ UNCHANGED <<tables, config, inflight, phase>>

(* POST /register (GET only renders the page) *)
register(emailRaw, password, salt) ==
    /\ phase = "serving"
    /\ LET email == NormEmail(emailRaw)
           in == [email |-> emailRaw, password |-> password]
       IN  IF email = Empty \/ password = Empty
           THEN /\ resp' = Response("register", "email_and_password_required", in, NoOut)
                /\ UNCHANGED <<users, seq>>
           ELSE IF EmailTaken(email)
           THEN /\ resp' = Response("register", "email_already_registered", in, NoOut)
                /\ UNCHANGED <<users, seq>>
           ELSE /\ seq.users <= MaxUsers
                /\ users' = users \cup
                      {[id |-> seq.users, email |-> email,
                        password_hash |-> generate_password_hash(password, salt)]}
                /\ seq' = [seq EXCEPT !.users = @ + 1]
                /\ resp' = Response("register", "redirect_login", in,
                                    [user_id |-> seq.users])
    /\ UNCHANGED <<forms, questions, answers, ai_summaries, session, config, inflight, phase>>

(* GET /logout *)
logout ==
    /\ phase = "serving"
    /\ session' = NoSession
    /\ resp' = Response("logout", "redirect_home", NoOut, NoOut)
    /\ UNCHANGED <<tables, config, inflight, phase>>

-----------------------------------------------------------------------------
(* Query helpers *)

(* ORDER BY position ASC *)
RECURSIVE OrderByPosition(_)
OrderByPosition(qs) ==
    IF qs = {} THEN <<>>
    ELSE LET first == CHOOSE q \in qs : \A r \in qs : q.position <= r.position
         IN  <<first>> \o OrderByPosition(qs \ {first})

(* ORDER BY id DESC *)
RECURSIVE OrderByIdDesc(_)
OrderByIdDesc(rows) ==
    IF rows = {} THEN <<>>
    ELSE LET first == CHOOSE f \in rows : \A r \in rows : f.id >= r.id
         IN  <<first>> \o OrderByIdDesc(rows \ {first})

(* mutation: the ownership check without its owner_id condition *)
OwnedForms_AnyOwner(form_id, user_id) == {f \in forms : f.id = form_id}

(* SELECT * FROM forms WHERE id = ? AND owner_id = ?  -- the ownership check *)
OwnedForms(form_id, user_id) == {f \in forms : f.id = form_id /\ f.owner_id = user_id}

(* SELECT * FROM forms WHERE public_id = ? *)
FormsByPublicId(public_id) == {f \in forms : f.public_id = public_id}

(* answers a JOIN questions q ON q.id = a.question_id WHERE a.form_id = ? *)
JoinedAnswers(form_id) ==
    {a \in answers : a.form_id = form_id /\ \E q \in questions : q.id = a.question_id}

(* SELECT summary_text FROM ai_summaries WHERE form_id = ? ORDER BY id DESC LIMIT 1 *)
LatestSummary(form_id) ==
    LET rows == {s \in ai_summaries : s.form_id = form_id}
    IN  IF rows = {} THEN NULL
        ELSE (CHOOSE s \in rows : \A r \in rows : s.id >= r.id).summary_text

-----------------------------------------------------------------------------
(* GET /dashboard *)
dashboard ==
    /\ phase = "serving"
    /\ \/ RedirectToLogin("dashboard", NoOut)
       \/ /\ login_required
          /\ resp' = Response("dashboard", "ok", NoOut,
                 [forms |-> OrderByIdDesc({f \in forms : f.owner_id = session.user_id})])
          /\ UNCHANGED <<tables, session, config, inflight, phase>>

-----------------------------------------------------------------------------
(* POST /forms/new *)

(* [q.strip() for q in getlist("questions[]") if q.strip()] *)
NonBlank(raw) == SelectSeq([i \in 1..Len(raw) |-> Strip(raw[i])], LAMBDA q : q # Empty)

(* One pass of the retry loop's body (app.py 190-203): draw a token and     *)
(* INSERT the form row.  `aborted`: a statement of this transaction has      *)
(* already failed on PostgreSQL, which then rejects every later statement of *)
(* it; SQLite rolls back the failed statement only.  `free` remembers the    *)
(* first token drawn that no row of forms holds.                             *)
Attempt(k, aborted, free) ==
    { LET unused == \A f \in forms : f.public_id # tok
          free2 == IF free = NULL /\ unused THEN tok ELSE free
      IN  IF aborted \/ UniqueViolation(forms, tok, 0)
          THEN [inserted |-> FALSE, public_id |-> NULL, attempts |-> k,
                aborted |-> (backend = "postgres"), free |-> free2]
          ELSE [inserted |-> TRUE, public_id |-> tok, attempts |-> k,
                aborted |-> FALSE, free |-> free2]
      : tok \in Tokens }

(* for _ in range(10): ... break / continue, else: raise RuntimeError.       *)
(* `pending` holds the ways attempts 1..k-1 can all have failed; the result  *)
(* is the set of ways the loop can end.                                      *)
RECURSIVE TryInsert(_, _)
TryInsert(k, pending) ==
    IF pending = {} THEN {}
    ELSE IF k > MaxAttempts
    THEN {[ok |-> FALSE, public_id |-> NULL, attempts |-> MaxAttempts, free |-> p.free]
             : p \in pending}
    ELSE LET tries == UNION {Attempt(k, p.aborted, p.free) : p \in pending}
         IN  {[ok |-> TRUE, public_id |-> t.public_id, attempts |-> k, free |-> t.free]
                 : t \in {x \in tries : x.inserted}}
             \cup TryInsert(k + 1, {x \in tries : ~x.inserted})

LoopStart == {[aborted |-> FALSE, free |-> NULL]}

(* mutation: positions counted from 0, as enumerate does by default *)
QuestionRows_FromZero(form_id, qs, first_id) ==
    {[id |-> first_id + i - 1, form_id |-> form_id, question_text |-> qs[i], position |-> i - 1]
        : i \in 1..Len(qs)}

(* enumerate(questions, start=1) *)
QuestionRows(form_id, qs, first_id) ==
    {[id |-> first_id + i - 1, form_id |-> form_id, question_text |-> qs[i], position |-> i]
        : i \in 1..Len(qs)}

create_form(titleRaw, questionsRaw) ==
    /\ phase = "serving"
    /\ LET in == [title |-> titleRaw, questions |-> questionsRaw]
           title == Strip(titleRaw)
           qs == NonBlank(questionsRaw)
       IN  \/ RedirectToLogin("create_form", in)
           \/ /\ login_required
              /\ UNCHANGED <<users, answers, ai_summaries, session, config, inflight, phase>>
              /\ IF title = Empty
                 THEN /\ resp' = Response("create_form", "title_required", in, NoOut)
                      /\ UNCHANGED <<forms, questions, seq>>
                 ELSE IF Len(qs) < 1
                 THEN /\ resp' = Response("create_form", "question_required", in, NoOut)
                      /\ UNCHANGED <<forms, questions, seq>>
                 ELSE \E r \in TryInsert(1, LoopStart) :
                      /\ resp' = Response("create_form",
                                   IF r.ok THEN "redirect_dashboard" ELSE "error_500", in,
                                   [form_id |-> IF r.ok THEN seq.forms ELSE 0,
                                    public_id |-> r.public_id, attempts |-> r.attempts,
                                    free |-> r.free, owner_id |-> session.user_id])
                      /\ IF r.ok
                         THEN /\ seq.forms <= MaxForms
                              /\ forms' = forms \cup
                                    {[id |-> seq.forms, public_id |-> r.public_id,
                                      owner_id |-> session.user_id, title |-> title]}
                              /\ questions' = questions \cup
                                    QuestionRows(seq.forms, qs, seq.questions)
                              /\ seq' = [seq EXCEPT !.forms = @ + 1,
                                                    !.questions = @ + Len(qs)]
                         ELSE UNCHANGED <<forms, questions, seq>>

-----------------------------------------------------------------------------
(* GET, POST /forms/<public_id> *)

(* mutation: the submitted text taken as it is, without strip() *)
SubmittedAnswer_NoStrip(submitted, qid) ==
    IF qid \in DOMAIN submitted THEN submitted[qid] ELSE Empty

(* request.form.get(f"q_{id}", "").strip() *)
SubmittedAnswer(submitted, qid) ==
    Strip(IF qid \in DOMAIN submitted THEN submitted[qid] ELSE Empty)

AnswerRows(form_id, kept, submitted, first_id) ==
    {[id |-> first_id + i - 1, form_id |-> form_id, question_id |-> kept[i].id,
      answer_text |-> SubmittedAnswer(submitted, kept[i].id)] : i \in 1..Len(kept)}

form_page(method, public_id, submitted) ==
    /\ phase = "serving"
    /\ LET in == [method |-> method, public_id |-> public_id, submitted |-> submitted]
           found == FormsByPublicId(public_id)
       IN  \/ /\ found = {}
              /\ resp' = Response("form_page", "not_found_404", in, NoOut)
              /\ UNCHANGED <<answers, seq>>
           \/ \E form \in found :
                LET qs == OrderByPosition({q \in questions : q.form_id = form.id})
                    kept == SelectSeq(qs, LAMBDA q : SubmittedAnswer(submitted, q.id) # Empty)
                IN  IF method = "POST"
                    THEN /\ seq.answers + Len(kept) - 1 <= MaxAnswers
                         /\ answers' = answers \cup
                               AnswerRows(form.id, kept, submitted, seq.answers)
                         /\ seq' = [seq EXCEPT !.answers = @ + Len(kept)]
                         /\ resp' = Response("form_page", "thank_you", in,
                                             [form_id |-> form.id])
                    ELSE /\ resp' = Response("form_page", "form", in,
                                [form_id |-> form.id,
                                 questions |-> [i \in 1..Len(qs) |-> qs[i].id]])
                         /\ UNCHANGED <<answers, seq>>
    /\ UNCHANGED <<users, forms, questions, ai_summaries, session, config, inflight, phase>>

-----------------------------------------------------------------------------
(* GET /dashboard/forms/<form_id>/results *)
form_results(form_id) ==
    /\ phase = "serving"
    /\ LET in == [form_id |-> form_id]
       IN  \/ RedirectToLogin("form_results", in)
           \/ /\ login_required
              /\ IF OwnedForms(form_id, session.user_id) = {}
                 THEN resp' = Response("form_results", "not_found_404", in, NoOut)
                 ELSE resp' = Response("form_results", "ok", in,
                          [answers |-> {a.id : a \in JoinedAnswers(form_id)},
                           summary |-> LatestSummary(form_id)])
              /\ UNCHANGED <<tables, session, config, inflight, phase>>

-----------------------------------------------------------------------------
(* send_email (app.py 21-46): skipped when SENDGRID_API_KEY or FROM_EMAIL is *)
(* unset; any exception of the SendGrid client is caught and printed.        *)
(* `raised` is whether the call raises to its caller.                        *)
send_email(configured, delivers) ==
    [raised |-> FALSE,
     log |-> IF ~configured THEN "Email skipped"
             ELSE IF delivers THEN "sent" ELSE "SendGrid error"]

(* the flash() of app.py 384-389 *)
EmailFlash(sent) ==
    IF sent.raised THEN "AI summary generated, but email failed to send."
    ELSE "AI summary generated and emailed to you."

(* mutation: the new summary replaces the form's earlier summaries *)
SaveSummary_Overwrite(id, form_id, text) ==
    {x \in ai_summaries : x.form_id # form_id}
        \cup {[id |-> id, form_id |-> form_id, summary_text |-> text]}

(* INSERT INTO ai_summaries (form_id, summary_text) VALUES (?, ?) *)
SaveSummary(id, form_id, text) ==
    ai_summaries \cup {[id |-> id, form_id |-> form_id, summary_text |-> text]}

(* POST /dashboard/forms/<form_id>/summary                                   *)
(* api_key: OPENAI_API_KEY is set; provider: the text client.responses.create *)
(* returns, or "raise" when the call fails; mail_cfg, delivers: the e-mail    *)
(* configuration and whether SendGrid accepts the message.                    *)
generate_summary(form_id, api_key, provider, mail_cfg, delivers) ==
    /\ phase = "serving"
    /\ LET in == [form_id |-> form_id, api_key |-> api_key, provider |-> provider,
                  mail_cfg |-> mail_cfg, delivers |-> delivers]
           rows == JoinedAnswers(form_id)
           sent == send_email(mail_cfg, delivers)
       IN  \/ RedirectToLogin("generate_summary", in)
           \/ /\ login_required
              /\ UNCHANGED <<users, forms, questions, answers, session, config, inflight, phase>>
              /\ IF ~api_key
                 THEN /\ resp' = Response("generate_summary", "no_api_key_500", in, NoOut)
                      /\ UNCHANGED <<ai_summaries, seq>>
                 ELSE IF OwnedForms(form_id, session.user_id) = {}
                 THEN /\ resp' = Response("generate_summary", "not_found_404", in, NoOut)
                      /\ UNCHANGED <<ai_summaries, seq>>
                 ELSE IF provider = "raise"
                 THEN /\ resp' = Response("generate_summary", "error_500", in, NoOut)
                      /\ UNCHANGED <<ai_summaries, seq>>
                 ELSE /\ seq.ai_summaries <= MaxSummaries
                      /\ ai_summaries' = SaveSummary(seq.ai_summaries, form_id, provider)
                      /\ seq' = [seq EXCEPT !.ai_summaries = @ + 1]
                      /\ resp' = Response("generate_summary", "redirect_results", in,
                            [summary_id |-> seq.ai_summaries,
                             qa_text |-> IF rows = {} THEN "No answers yet." ELSE "Q&A",
                             email_log |-> IF session.email # Empty THEN sent.log ELSE "none",
                             flash |-> IF session.email # Empty THEN EmailFlash(sent)
                                       ELSE "none"])

-----------------------------------------------------------------------------
(* POST /dashboard/forms/<form_id>/delete *)

(* What DELETE FROM forms WHERE id = ? takes with it.  Only the PostgreSQL   *)
(* schema declares REFERENCES ... ON DELETE CASCADE; the SQLite schema       *)
(* declares no foreign key at all.                                           *)
CascadeQuestions(form_id) ==
    IF backend = "postgres" THEN {q \in questions : q.form_id = form_id} ELSE {}

CascadeAnswers(form_id) ==
    IF backend = "postgres"
    THEN {a \in answers : \/ a.form_id = form_id
                          \/ \E q \in CascadeQuestions(form_id) : q.id = a.question_id}
    ELSE {}

CascadeSummaries(form_id) ==
    IF backend = "postgres" THEN {s \in ai_summaries : s.form_id = form_id} ELSE {}

delete_form(form_id) ==
    /\ phase = "serving"
    /\ LET in == [form_id |-> form_id]
       IN  \/ RedirectToLogin("delete_form", in)
           \/ /\ login_required
              /\ UNCHANGED <<users, seq, session, config, inflight, phase>>
              /\ IF OwnedForms(form_id, session.user_id) = {}
                 THEN /\ resp' = Response("delete_form", "not_found_404", in, NoOut)
                      /\ UNCHANGED <<forms, questions, answers, ai_summaries>>
                 ELSE /\ forms' = forms \ OwnedForms(form_id, session.user_id)
                      /\ questions' = questions \ CascadeQuestions(form_id)
                      /\ answers' = answers \ CascadeAnswers(form_id)
                      /\ ai_summaries' = ai_summaries \ CascadeSummaries(form_id)
                      /\ resp' = Response("delete_form", "redirect_dashboard", in,
                                          [flash |-> "Form deleted."])

-----------------------------------------------------------------------------
(* Requests served concurrently.  The server runs every request in a worker *)
(* of its own and every get_conn() opens a connection of its own, so the    *)
(* transaction of another request can commit between two statements of a    *)
(* handler.  generate_summary and form_page read a form and write rows      *)
(* under its id later; they are split where that can happen:                *)
(*   generate_summary : ownership check and answers read on one connection  *)
(*                      | provider call, INSERT and commit on a second one; *)
(*   form_page POST   : the two SELECTs | the INSERTs and the commit.       *)
(* Both SELECTs of form_page run before the connection writes: sqlite3      *)
(* opens its transaction at the first INSERT, and PostgreSQL (READ          *)
(* COMMITTED) takes a new snapshot for every statement.  The writing part   *)
(* is one transaction and is atomic against delete_form's.                  *)
(* `inflight` holds what a worker keeps in local variables in between.      *)

MaxInflight == 2     \* requests in progress at the same time

(* The FOREIGN KEY check of an INSERT naming form_id and the questions qids. *)
(* Only the PostgreSQL schema declares REFERENCES forms(id) and             *)
(* REFERENCES questions(id); the SQLite schema declares no foreign key, so  *)
(* its PRAGMA foreign_keys = ON has nothing to check.                       *)
ForeignKeyViolation(form_id, qids) ==
    /\ backend = "postgres"
    /\ \/ ~\E f \in forms : f.id = form_id
       \/ \E qid \in qids : ~\E q \in questions : q.id = qid

(* generate_summary up to the end of its first `with get_conn()` block      *)
(* (app.py 300-335).  A caller without a session, a missing credential and  *)
(* a form that is not the caller's are answered at once, as in              *)
(* generate_summary; otherwise the worker goes on to call the provider.     *)
generate_summary_check(form_id, api_key, provider, mail_cfg, delivers) ==
    LET in == [form_id |-> form_id, api_key |-> api_key, provider |-> provider,
               mail_cfg |-> mail_cfg, delivers |-> delivers]
        owned == OwnedForms(form_id, session.user_id)
    IN  \/ /\ (~login_required \/ ~api_key \/ owned = {})
           /\ generate_summary(form_id, api_key, provider, mail_cfg, delivers)
        \/ /\ phase = "serving"
           /\ login_required /\ api_key /\ owned # {}
           /\ Cardinality(inflight) < MaxInflight
           /\ inflight' = inflight \cup
                 {[op |-> "generate_summary", in |-> in, session |-> session,
                   read |-> [qa_text |-> IF JoinedAnswers(form_id) = {}
                                         THEN "No answers yet." ELSE "Q&A"]]}
           /\ UNCHANGED <<tables, session, config, phase, resp>>

(* the rest of generate_summary (app.py 360-391) for the worker holding r:  *)
(* the provider call, then the INSERT on the second connection, which does  *)
(* not look at the forms table again, then the e-mail and the redirect      *)
generate_summary_save(r) ==
    /\ r \in inflight /\ r.op = "generate_summary"
    /\ inflight' = inflight \ {r}
    /\ LET sent == send_email(r.in.mail_cfg, r.in.delivers)
       IN  IF r.in.provider = "raise" \/ ForeignKeyViolation(r.in.form_id, {})
           THEN /\ resp' = Response("generate_summary", "error_500", r.in, NoOut)
                /\ UNCHANGED <<ai_summaries, seq>>
           ELSE /\ seq.ai_summaries <= MaxSummaries
                /\ ai_summaries' = SaveSummary(seq.ai_summaries, r.in.form_id, r.in.provider)
                /\ seq' = [seq EXCEPT !.ai_summaries = @ + 1]
                /\ resp' = Response("generate_summary", "redirect_results", r.in,
                      [summary_id |-> seq.ai_summaries,
                       qa_text |-> r.read.qa_text,
                       email_log |-> IF r.session.email # Empty THEN sent.log ELSE "none",
                       flash |-> IF r.session.email # Empty THEN EmailFlash(sent)
                                 ELSE "none"])
    /\ UNCHANGED <<users, forms, questions, answers, session, config, phase>>

(* form_page up to its second SELECT (app.py 220-238).  A GET and an        *)
(* unknown token are answered at once, as in form_page; a POST to a known   *)
(* token goes on to the INSERTs with the form and the questions it read.    *)
form_page_read(method, public_id, submitted) ==
    LET in == [method |-> method, public_id |-> public_id, submitted |-> submitted]
        found == FormsByPublicId(public_id)
    IN  \/ /\ (method # "POST" \/ found = {})
           /\ form_page(method, public_id, submitted)
        \/ /\ phase = "serving"
           /\ method = "POST"
           /\ Cardinality(inflight) < MaxInflight
           /\ \E form \in found :
                inflight' = inflight \cup
                   {[op |-> "form_page", in |-> in, session |-> NoSession,
                     read |-> [form_id |-> form.id,
                               questions |-> OrderByPosition(
                                   {q \in questions : q.form_id = form.id})]]}
           /\ UNCHANGED <<tables, session, config, phase, resp>>

(* the rest of form_page (app.py 240-250) for the worker holding r: one     *)
(* INSERT per question read whose submitted text is not blank, then the     *)
(* commit.  A rejected INSERT raises out of the handler and the connection  *)
(* is closed without a commit.                                              *)
form_page_write(r) ==
    /\ r \in inflight /\ r.op = "form_page"
    /\ inflight' = inflight \ {r}
    /\ LET kept == SelectSeq(r.read.questions,
                             LAMBDA q : SubmittedAnswer(r.in.submitted, q.id) # Empty)
       IN  IF kept # <<>> /\ ForeignKeyViolation(r.read.form_id,
                                                 {kept[i].id : i \in 1..Len(kept)})
           THEN /\ resp' = Response("form_page", "error_500", r.in, NoOut)
                /\ UNCHANGED <<answers, seq>>
           ELSE /\ seq.answers + Len(kept) - 1 <= MaxAnswers
                /\ answers' = answers \cup
                      AnswerRows(r.read.form_id, kept, r.in.submitted, seq.answers)
                /\ seq' = [seq EXCEPT !.answers = @ + Len(kept)]
                /\ resp' = Response("form_page", "thank_you", r.in,
                                    [form_id |-> r.read.form_id])
    /\ UNCHANGED <<users, forms, questions, ai_summaries, session, config, phase>>

-----------------------------------------------------------------------------
(* Requests the clients send *)

Blank == <<" ">>

EmailInputs == {Empty, Blank, <<" ", "A">>, <<"b">>}
RegisterPasswords == {Empty, <<"p">>}
LoginPasswords == {<<"p">>, <<"w">>}
TitleInputs == {Blank, <<" ", "t">>}
QuestionInputs == {<<>>, <<Blank>>, <<<<" ", "q">>>>, <<<<"r", " ">>, Blank, <<" ", "q">>>>}
FormIdInputs == 1..MaxForms
PublicIdInputs == Tokens \cup {"tokX"}
AnswerInputs == {Blank, <<" ", "x">>}
QuestionIdInputs == 1..2
SubmissionInputs == UNION {[S -> AnswerInputs] : S \in SUBSET QuestionIdInputs}
NoSubmission == [q \in {} |-> Empty]

(* <<api_key, provider, mail_cfg, delivers>>: the environment of a summary    *)
(* request; the e-mail settings are read only after the summary is stored     *)
SummaryEnvs ==
    {<<FALSE, "raise", FALSE, FALSE>>, <<TRUE, "raise", FALSE, FALSE>>}
    \cup {<<TRUE, text, m[1], m[2]>> : text \in {"summary1", "summary2"},
                                        m \in {<<FALSE, FALSE>>, <<TRUE, TRUE>>, <<TRUE, FALSE>>}}

Next ==
    \/ Backfill
    \/ \E e \in EmailInputs, pw \in RegisterPasswords, salt \in Salts : register(e, pw, salt)
    \/ \E e \in EmailInputs, pw \in LoginPasswords : login(e, pw)
    \/ logout
    \/ dashboard
    \/ \E t \in TitleInputs, qs \in QuestionInputs : create_form(t, qs)
    \/ \E tok \in PublicIdInputs : form_page("GET", tok, NoSubmission)
    \/ \E tok \in PublicIdInputs, sub \in SubmissionInputs : form_page("POST", tok, sub)
    \/ \E id \in FormIdInputs : form_results(id)
    \/ \E id \in FormIdInputs, e \in SummaryEnvs : generate_summary(id, e[1], e[2], e[3], e[4])
    \/ \E id \in FormIdInputs : delete_form(id)
    \/ \E id \in FormIdInputs, e \in SummaryEnvs :
          generate_summary_check(id, e[1], e[2], e[3], e[4])
    \/ \E r \in inflight : generate_summary_save(r)
    \/ \E tok \in PublicIdInputs, sub \in SubmissionInputs : form_page_read("POST", tok, sub)
    \/ \E r \in inflight : form_page_write(r)

(* The whole application: every handler served in one piece, and            *)
(* generate_summary and form_page also in the two parts another request can *)
(* come between.  The specifications below are Spec restricted to one       *)
(* initial database and to the requests of one scenario.                    *)
Spec == Init /\ [][Next]_vars

-----------------------------------------------------------------------------
(* Vocabulary of the properties *)

(* the text has a character that is not white space *)
HasInk(text) == \E i \in 1..Len(text) : text[i] # " "

(* t is raw without its leading and trailing white space *)
IsTrimOf(t, raw) ==
    /\ t # Empty => t[1] # " " /\ t[Len(t)] # " "
    /\ \E lead \in 0..(Len(raw) - Len(t)) :
         /\ SubSeq(raw, lead + 1, lead + Len(t)) = t
         /\ \A i \in 1..Len(raw) : (i <= lead \/ i > lead + Len(t)) => raw[i] = " "

(* e is the stored form of the e-mail typed as raw: trimmed, lower case *)
IsNormalisedEmail(e, raw) ==
    /\ \E t \in {SubSeq(raw, i, j) : i \in 1..(Len(raw) + 1), j \in 0..Len(raw)} :
         /\ IsTrimOf(t, raw)
         /\ Len(e) = Len(t)
         /\ \A i \in 1..Len(t) : e[i] = t[i] \/ (t[i] = "A" /\ e[i] = "a") \/ (t[i] = "B" /\ e[i] = "b")
    /\ \A i \in 1..Len(e) : e[i] \notin {"A", "B"}

TablesUnchanged ==
    /\ users' = users /\ forms' = forms /\ questions' = questions
    /\ answers' = answers /\ ai_summaries' = ai_summaries

Did(op) == resp'.op = op

-----------------------------------------------------------------------------
(* Registration and login on their own: an empty users table, then any      *)
(* sequence of register, login, logout and dashboard requests.              *)

InitAuth ==
    /\ backend \in {"sqlite", "postgres"}
    /\ uniqueToken \in BOOLEAN
    /\ InitDB(0, 0)

NextAuth ==
    \/ Backfill
    \/ \E e \in EmailInputs, pw \in RegisterPasswords, salt \in Salts : register(e, pw, salt)
    \/ \E e \in EmailInputs, pw \in LoginPasswords : login(e, pw)
    \/ logout
    \/ dashboard

SpecAuth == InitAuth /\ [][NextAuth]_vars

(* the row of the user who typed this e-mail, if registered *)
UsersTyped(raw) == {u \in users : IsNormalisedEmail(u.email, raw)}

(* no two users rows hold the same e-mail *)
UniqueEmails == \A u, v \in users : u.email = v.email => u = v

(* a register request for an e-mail nobody holds yet ends in the login page *)
(* with one new row whose stored hash verifies the password typed           *)
RegisterCreates ==
    /\ resp'.status = "redirect_login"
    /\ \E u \in users' \ users :
         /\ users' = users \cup {u}
         /\ IsNormalisedEmail(u.email, resp'.in.email)
         /\ u.password_hash.digest = <<u.password_hash.salt, resp'.in.password>>

(* login with the e-mail and password of a registered user opens that       *)
(* user's session; any other login fails in one and the same way            *)
LoginStep ==
    Did("login") =>
        LET match == {u \in UsersTyped(resp'.in.email) :
                        u.password_hash.digest = <<u.password_hash.salt, resp'.in.password>>}
        IN  /\ match # {} => /\ resp'.status = "redirect_dashboard"
                             /\ \E u \in match : session' = [user_id |-> u.id, email |-> u.email]
            /\ match = {} => /\ resp'.status = "invalid_email_or_password"
                             /\ session' = session
            /\ users' = users

DuplicateStep ==
    (Did("register") /\ UsersTyped(resp'.in.email) # {}
                     /\ HasInk(resp'.in.email) /\ resp'.in.password # Empty)
        => resp'.status = "email_already_registered" /\ users' = users

(* C7, as stated: every non-empty e-mail and password can be registered     *)
(* (unless taken) and then logs in; unknown e-mail and wrong password fail   *)
(* alike and open no session; a second registration of an e-mail is refused  *)
(* and changes nothing, so e-mails stay unique.                              *)
C7_AsStated ==
    /\ []UniqueEmails
    /\ [][ /\ (Did("register") /\ resp'.in.email # Empty /\ resp'.in.password # Empty
                 /\ UsersTyped(resp'.in.email) = {}) => RegisterCreates
           /\ LoginStep
           /\ DuplicateStep
           /\ users \subseteq users' ]_vars

(* C7, amended: the same for every e-mail that is non-empty after trimming  *)
(* (an e-mail of white space only is refused like an empty one): register    *)
(* then login succeeds and opens that user's session, failed logins are      *)
(* indistinguishable and open no session, a duplicate e-mail is refused      *)
(* without a change, and e-mails are unique in every reachable state.        *)
C7_RegisterLoginRoundTrip ==
    /\ []UniqueEmails
    /\ [][ /\ (Did("register") /\ HasInk(resp'.in.email) /\ resp'.in.password # Empty
                 /\ UsersTyped(resp'.in.email) = {}) => RegisterCreates
           /\ (Did("register") /\ ~HasInk(resp'.in.email))
                 => resp'.status = "email_and_password_required" /\ users' = users
           /\ LoginStep
           /\ DuplicateStep
           /\ users \subseteq users' ]_vars

(* a user who registered in this run, typing " A", is logged in by " A"/"p" *)
(* while a second user is registered as well                                *)
C7_Witness ==
    /\ resp.op = "login" /\ resp.status = "redirect_dashboard"
    /\ resp.in.email = <<" ", "A">>
    /\ session.email = <<"a">>
    /\ Cardinality(users) = 2

-----------------------------------------------------------------------------
(* The session gate: one registered user ("a"), who logs in and out while   *)
(* every owner-only handler is requested with and without a session.        *)

InitGate ==
    /\ backend \in {"sqlite", "postgres"}
    /\ uniqueToken \in BOOLEAN
    /\ InitDB(1, 0)

BasicSummaryEnvs == {<<FALSE, "raise", FALSE, FALSE>>, <<TRUE, "summary1", FALSE, FALSE>>}

NextGate ==
    \/ Backfill
    \/ \E pw \in LoginPasswords : login(<<" ", "A">>, pw)
    \/ logout
    \/ dashboard
    \/ \E t \in TitleInputs, qs \in {<<>>, <<<<" ", "q">>>>} : create_form(t, qs)
    \/ \E id \in FormIdInputs : form_results(id)
    \/ \E id \in FormIdInputs, e \in BasicSummaryEnvs :
          generate_summary(id, e[1], e[2], e[3], e[4])
    \/ \E id \in FormIdInputs : delete_form(id)

SpecGate == InitGate /\ [][NextGate]_vars

OwnerOnly == {"dashboard", "create_form", "form_results", "generate_summary", "delete_form"}

(* the session names no user, or a user of the users table and their e-mail *)
SessionIsOfAUser ==
    session.user_id # NoUser =>
        \E u \in users : session = [user_id |-> u.id, email |-> u.email]

(* C8: an owner-only handler answers with anything but the login redirect    *)
(* only for a session holding a user id; without one the caller is sent to   *)
(* login and no table changes; a user id enters the session only by a        *)
(* successful login and stays until it is replaced by a login or removed by  *)
(* logout; logout leaves an empty session whatever the state.                *)
C8_SessionGate ==
    /\ []SessionIsOfAUser
    /\ [][ /\ (resp'.op \in OwnerOnly /\ resp'.status # "redirect_login")
                 => session.user_id # NoUser
           /\ (resp'.op \in OwnerOnly /\ session.user_id = NoUser)
                 => /\ resp'.status = "redirect_login"
                    /\ TablesUnchanged /\ seq' = seq /\ session' = session
           /\ (session' # session /\ session'.user_id # NoUser)
                 => Did("login") /\ resp'.status = "redirect_dashboard"
           /\ (session' # session /\ session'.user_id = NoUser) => Did("logout")
           /\ Did("logout") => session' = NoSession ]_vars

(* after forms were created under a session and the user logged out, a       *)
(* delete request is sent to login and the forms stay                        *)
C8_Witness ==
    /\ resp.op = "delete_form" /\ resp.status = "redirect_login"
    /\ session = NoSession
    /\ \E f \in forms : f.id = resp.in.form_id

-----------------------------------------------------------------------------
(* Owners and strangers: two registered users, "a" and "b", and one form of  *)
(* "a" in the database.  Either user logs in and requests the results, a    *)
(* summary or the deletion of any form id, while anonymous respondents open *)
(* and answer the form.                                                     *)

InitOwner ==
    /\ backend \in {"sqlite", "postgres"}
    /\ uniqueToken \in BOOLEAN
    /\ InitDB(2, 1)

NextOwner ==
    \/ Backfill
    \/ \E e \in {<<" ", "A">>, <<"b">>} : login(e, <<"p">>)
    \/ \E tok \in PublicIdInputs : form_page("GET", tok, NoSubmission)
    \/ \E tok \in Tokens, q \in QuestionIdInputs : form_page("POST", tok, q :> <<" ", "x">>)
    \/ \E id \in FormIdInputs : form_results(id)
    \/ \E id \in FormIdInputs, e \in BasicSummaryEnvs :
          generate_summary(id, e[1], e[2], e[3], e[4])
    \/ \E id \in FormIdInputs : delete_form(id)

SpecOwner == InitOwner /\ [][NextOwner]_vars

OwnerScoped == {"form_results", "generate_summary", "delete_form"}

(* the request names a form that exists and belongs to someone other than   *)
(* the logged-in caller                                                     *)
ByStranger ==
    /\ resp'.op \in OwnerScoped
    /\ session.user_id # NoUser
    /\ \E f \in forms : f.id = resp'.in.form_id /\ f.owner_id # session.user_id

(* the public page of an existing form is served whoever asks *)
PublicPageServed ==
    (Did("form_page") /\ \E f \in forms : f.public_id = resp'.in.public_id)
        => resp'.status \in {"form", "thank_you"}

(* C1, as stated: with B's session, form_results, generate_summary and       *)
(* delete_form on a form of A all answer 404 and change no table, whatever   *)
(* the configuration, while the form's public page is served to anyone.      *)
C1_AsStated ==
    [][ /\ ByStranger => resp'.status = "not_found_404" /\ TablesUnchanged
        /\ PublicPageServed ]_vars

(* C1, amended: with B's session, form_results and delete_form on a form of  *)
(* A answer 404, and generate_summary answers 404 when the AI provider       *)
(* credential is set and 500 ("OPENAI_API_KEY not set on server") when it is *)
(* absent, the credential being read before the ownership check; in every    *)
(* case no table changes, and the form's public page is served to anyone.    *)
C1_StrangerIsRefused ==
    [][ /\ ByStranger =>
             /\ TablesUnchanged
             /\ resp'.status = IF Did("generate_summary") /\ ~resp'.in.api_key
                               THEN "no_api_key_500" ELSE "not_found_404"
        /\ PublicPageServed ]_vars

(* "b" is refused the deletion of a form of "a" that has answers and a summary *)
C1_Witness ==
    /\ resp.op = "delete_form" /\ resp.status = "not_found_404"
    /\ session.user_id = 2
    /\ \E f \in forms :
         /\ f.id = resp.in.form_id /\ f.owner_id = 1
         /\ \E a \in answers : a.form_id = f.id
         /\ \E x \in ai_summaries : x.form_id = f.id

(* C2: once delete_form has succeeded for the owner, no forms, questions,    *)
(* answers or ai_summaries row of that form id is left, on either backend.   *)
C2_DeleteLeavesNoRows ==
    [][ (Did("delete_form") /\ resp'.status = "redirect_dashboard") =>
            /\ \A f \in forms' : f.id # resp'.in.form_id
            /\ \A q \in questions' : q.form_id # resp'.in.form_id
            /\ \A a \in answers' : a.form_id # resp'.in.form_id
            /\ \A x \in ai_summaries' : x.form_id # resp'.in.form_id ]_vars

-----------------------------------------------------------------------------
(* Form creation: one registered user ("a"), a database with up to           *)
(* MaxLegacy legacy forms, and any sequence of create_form requests.         *)

InitForms ==
    /\ backend \in {"sqlite", "postgres"}
    /\ uniqueToken \in BOOLEAN
    /\ \E nl \in 0..MaxLegacy : InitDB(1, nl)

NextForms ==
    \/ Backfill
    \/ login(<<" ", "A">>, <<"p">>)
    \/ \E t \in TitleInputs, qs \in QuestionInputs : create_form(t, qs)

SpecForms == InitForms /\ [][NextForms]_vars

(* C3: no two rows of forms hold the same public token, in every reachable   *)
(* state, after the start-up backfill and any sequence of create_form.       *)
C3_PublicTokensUnique ==
    \A f, g \in forms :
        (f.id # g.id /\ f.public_id # NULL) => f.public_id # g.public_id

(* the k-th entry of the submitted list that is not blank *)
InkAt(raw) == {i \in 1..Len(raw) : HasInk(raw[i])}
KthInk(raw, k) == CHOOSE i \in InkAt(raw) : Cardinality({j \in InkAt(raw) : j <= i}) = k

(* a create_form request that passed the session gate *)
CreateRequest == Did("create_form") /\ session.user_id # NoUser

(* one form row of the caller and, for the k-th non-blank entry submitted,   *)
(* one question row at position k holding that entry, trimmed; nothing else  *)
CreatedWithQuestions ==
    LET raw == resp'.in.questions
        n == Cardinality(InkAt(raw))
        newQ == questions' \ questions
    IN  /\ resp'.status = "redirect_dashboard"
        /\ questions \subseteq questions'
        /\ Cardinality(newQ) = n
        /\ \E f \in forms' \ forms :
             /\ forms' = forms \cup {f}
             /\ \A g \in forms : g.id # f.id
             /\ f.owner_id = session.user_id
             /\ IsTrimOf(f.title, resp'.in.title)
             /\ \A q \in newQ : q.form_id = f.id /\ q.position \in 1..n
             /\ \A k \in 1..n : \E q \in newQ :
                    q.position = k /\ IsTrimOf(q.question_text, raw[KthInk(raw, k)])

NothingCreated == forms' = forms /\ questions' = questions

(* every form row is there with all of its questions, at positions 1..N *)
FormsHaveTheirQuestions ==
    \A f \in forms :
        LET qs == {q \in questions : q.form_id = f.id}
        IN  qs # {} /\ {q.position : q \in qs} = 1..Cardinality(qs)

(* C4, as stated: for every non-empty title and every list with N >= 1       *)
(* non-blank questions create_form commits one form row and N question rows  *)
(* at positions 1..N in submitted order, together; an empty title or no      *)
(* non-blank question creates nothing.                                       *)
C4_AsStated ==
    /\ []FormsHaveTheirQuestions
    /\ [][ CreateRequest =>
             IF resp'.in.title # Empty /\ InkAt(resp'.in.questions) # {}
             THEN CreatedWithQuestions ELSE NothingCreated ]_vars

(* C4, amended: for every title that is non-blank after trimming and every   *)
(* list with N >= 1 non-blank questions, create_form either commits one form *)
(* row and N question rows at positions 1..N in submitted order, together,   *)
(* or fails fatally (no attempt of the token loop inserted the form row) and *)
(* commits nothing; a blank title or no non-blank question creates nothing.  *)
C4_CreateFormAllOrNothing ==
    /\ []FormsHaveTheirQuestions
    /\ [][ CreateRequest =>
             IF HasInk(resp'.in.title) /\ InkAt(resp'.in.questions) # {}
             THEN \/ CreatedWithQuestions
                  \/ resp'.status = "error_500" /\ NothingCreated
             ELSE /\ NothingCreated
                  /\ resp'.status \in {"title_required", "question_required"} ]_vars

(* a form was created from a list with a blank entry between two questions *)
C4_Witness ==
    /\ resp.op = "create_form" /\ resp.status = "redirect_dashboard"
    /\ Len(resp.in.questions) = 3
    /\ \E q \in questions : q.form_id = resp.out.form_id /\ q.position = 2

(* C5: a rejected insert of the form row is retried with a new token, at     *)
(* most 10 attempts in all; if some attempt draws a token no form holds, the *)
(* form is created under that token, on both backends and also after an      *)
(* earlier attempt failed; if every attempt is rejected the request fails    *)
(* and no form or question row is stored.                                    *)
C5_RetryUntilFree ==
    [][ (CreateRequest /\ resp'.status \in {"redirect_dashboard", "error_500"}) =>
          /\ resp'.out.attempts <= MaxAttempts
          /\ resp'.out.free # NULL =>
                /\ resp'.status = "redirect_dashboard"
                /\ \E f \in forms' \ forms :
                      f.id = resp'.out.form_id /\ f.public_id = resp'.out.free
          /\ resp'.status = "error_500" =>
                resp'.out.attempts = MaxAttempts /\ NothingCreated ]_vars

-----------------------------------------------------------------------------
(* Answer collection: user "a" creates forms of one or two questions, and   *)
(* anonymous respondents open any token and post any submission.            *)

InitAnswers ==
    /\ backend \in {"sqlite", "postgres"}
    /\ uniqueToken \in BOOLEAN
    /\ InitDB(1, 0)

NextAnswers ==
    \/ Backfill
    \/ login(<<" ", "A">>, <<"p">>)
    \/ \E qs \in {<<<<" ", "q">>>>, <<<<"r", " ">>, Blank, <<" ", "q">>>>} :
          create_form(<<" ", "t">>, qs)
    \/ \E tok \in PublicIdInputs : form_page("GET", tok, NoSubmission)
    \/ \E tok \in PublicIdInputs, sub \in SubmissionInputs : form_page("POST", tok, sub)

SpecAnswers == InitAnswers /\ [][NextAnswers]_vars

(* the questions of form f that the submission answers with a non-blank text *)
Answered(f, submitted) ==
    {q \in questions : /\ q.form_id = f.id
                       /\ q.id \in DOMAIN submitted
                       /\ HasInk(submitted[q.id])}

(* C6: a POST to the page of an existing token stores, for the form it       *)
(* serves, exactly one new answer row per question of that form whose        *)
(* submitted text is non-blank, carrying the form's id, the question's id    *)
(* and the trimmed text; blank, missing and foreign question ids store       *)
(* nothing; old rows stay, so repeated submissions add rows; the response is *)
(* the thank-you page even when nothing was stored.  An unknown token yields *)
(* 404 and stores nothing.                                                   *)
C6_SubmitStoresNonBlank ==
    [][ (Did("form_page") /\ resp'.in.method = "POST") =>
          LET found == {f \in forms : f.public_id = resp'.in.public_id}
              sub == resp'.in.submitted
              new == answers' \ answers
          IN  /\ answers \subseteq answers'
              /\ found = {} => resp'.status = "not_found_404" /\ new = {}
              /\ found # {} =>
                   /\ resp'.status = "thank_you"
                   /\ \E f \in found :
                        /\ resp'.out.form_id = f.id
                        /\ Cardinality(new) = Cardinality(Answered(f, sub))
                        /\ \A q \in Answered(f, sub) : \E a \in new :
                              /\ a.form_id = f.id /\ a.question_id = q.id
                              /\ IsTrimOf(a.answer_text, sub[q.id])
                        /\ \A a \in new : \A b \in answers : a.id # b.id ]_vars

(* a submission with a text for question 1 and a blank for question 2 of a   *)
(* two-question form stored one row, next to the row of an earlier submission *)
C6_Witness ==
    /\ resp.op = "form_page" /\ resp.status = "thank_you"
    /\ DOMAIN resp.in.submitted = {1, 2}
    /\ HasInk(resp.in.submitted[1]) /\ ~HasInk(resp.in.submitted[2])
    /\ \A q \in {1, 2} : \E r \in questions : r.id = q /\ r.form_id = resp.out.form_id
    /\ Cardinality(answers) = 2
    /\ \A a \in answers : a.question_id = 1

-----------------------------------------------------------------------------
(* Summaries: user "a" owns the one form of the database and requests       *)
(* summaries of any form id under every provider and e-mail outcome.        *)

InitSummary ==
    /\ backend \in {"sqlite", "postgres"}
    /\ uniqueToken \in BOOLEAN
    /\ InitDB(1, 1)

NextSummary ==
    \/ Backfill
    \/ login(<<" ", "A">>, <<"p">>)
    \/ \E tok \in Tokens : form_page("POST", tok, 1 :> <<" ", "x">>)
    \/ \E id \in FormIdInputs, e \in SummaryEnvs :
          generate_summary(id, e[1], e[2], e[3], e[4])
    \/ \E id \in FormIdInputs : form_results(id)

SpecSummary == InitSummary /\ [][NextSummary]_vars

(* a generate_summary request by the owner of the form it names *)
SummaryByOwner ==
    /\ Did("generate_summary")
    /\ session.user_id # NoUser
    /\ \E f \in forms : f.id = resp'.in.form_id /\ f.owner_id = session.user_id

OtherTablesUnchanged ==
    users' = users /\ forms' = forms /\ questions' = questions /\ answers' = answers

(* C9: ai_summaries only grows, and only by generate_summary.  A call by     *)
(* the owner whose provider call returns text adds exactly one row, with a   *)
(* new id, that form's id and that text, and leaves every earlier row as it  *)
(* was; a call with the provider credential absent (500) or with a failing   *)
(* provider call (the error propagates) adds no row and changes no table.    *)
C9_SummariesAppendOnly ==
    [][ /\ ai_summaries \subseteq ai_summaries'
        /\ ai_summaries' # ai_summaries => Did("generate_summary")
        /\ SummaryByOwner =>
             /\ OtherTablesUnchanged
             /\ IF ~resp'.in.api_key
                THEN resp'.status = "no_api_key_500" /\ ai_summaries' = ai_summaries
                ELSE IF resp'.in.provider = "raise"
                THEN resp'.status = "error_500" /\ ai_summaries' = ai_summaries
                ELSE /\ resp'.status = "redirect_results"
                     /\ \E x \in ai_summaries' \ ai_summaries :
                          /\ ai_summaries' = ai_summaries \cup {x}
                          /\ x.form_id = resp'.in.form_id
                          /\ x.summary_text = resp'.in.provider
                          /\ \A y \in ai_summaries : y.id < x.id ]_vars

(* a second summary of the form was stored next to the first, and the        *)
(* results page shows the newer text                                         *)
C9_Witness ==
    /\ resp.op = "generate_summary" /\ resp.status = "redirect_results"
    /\ resp.in.provider = "summary2"
    /\ \E x, y \in ai_summaries :
         /\ x.form_id = y.form_id /\ x.id < y.id
         /\ x.summary_text = "summary1" /\ y.summary_text = "summary2"
    /\ LatestSummary(resp.in.form_id) = "summary2"

(* C10: once generate_summary has stored the summary, a failing e-mail       *)
(* notification (send error, or e-mail not configured) neither aborts the    *)
(* request nor removes the stored row, and a send error is shown to the      *)
(* owner as the warning that the e-mail failed, not as "emailed to you".     *)
C10_EmailFailureIsWarned ==
    [][ (SummaryByOwner /\ resp'.in.api_key /\ resp'.in.provider # "raise"
           /\ session.email # Empty
           /\ (~resp'.in.mail_cfg \/ ~resp'.in.delivers)) =>
          /\ resp'.status = "redirect_results"
          /\ \E x \in ai_summaries' : /\ x.id = resp'.out.summary_id
                                      /\ x.summary_text = resp'.in.provider
          /\ (resp'.in.mail_cfg /\ ~resp'.in.delivers) =>
                resp'.out.flash = "AI summary generated, but email failed to send." ]_vars

-----------------------------------------------------------------------------
(* Deletion racing with requests in progress: user "a" owns the one form of *)
(* the database, with its one question.  Respondents post an answer to it   *)
(* and the owner asks for summaries, each request in two parts, while the   *)
(* owner (in another tab of the same browser) deletes the form.             *)

RaceSummaryEnvs ==
    {<<FALSE, "raise", FALSE, FALSE>>, <<TRUE, "raise", FALSE, FALSE>>,
     <<TRUE, "summary1", FALSE, FALSE>>}

InitRace ==
    /\ backend \in {"sqlite", "postgres"}
    /\ uniqueToken \in BOOLEAN
    /\ InitDB(1, 1)

NextRace ==
    \/ Backfill
    \/ login(<<" ", "A">>, <<"p">>)
    \/ \E tok \in Tokens : form_page_read("POST", tok, 1 :> <<" ", "x">>)
    \/ \E r \in inflight : form_page_write(r)
    \/ \E id \in FormIdInputs, e \in RaceSummaryEnvs :
          generate_summary_check(id, e[1], e[2], e[3], e[4])
    \/ \E r \in inflight : generate_summary_save(r)
    \/ \E id \in FormIdInputs : delete_form(id)

SpecRace == InitRace /\ [][NextRace]_vars

(* the form a request in progress read, and writes under *)
FormOf(r) == IF r.op = "form_page" THEN r.read.form_id ELSE r.in.form_id

FormExists(form_id) == \E f \in forms : f.id = form_id

(* every answer and every summary is of a form that exists *)
ReferentialIntegrity ==
    /\ \A a \in answers : FormExists(a.form_id)
    /\ \A x \in ai_summaries : FormExists(x.form_id)

(* a request that reaches its INSERT after its form was deleted stores nothing *)
LateRequestStoresNothing ==
    \A r \in inflight \ inflight' :
        ~FormExists(FormOf(r)) => answers' = answers /\ ai_summaries' = ai_summaries

(* C11: under every interleaving of the owner's delete_form with a          *)
(* generate_summary (ownership check on one connection, provider call,      *)
(* INSERT on a second connection) or a form_page POST (reads, then INSERTs) *)
(* in progress, every reachable state keeps referential integrity: every    *)
(* ai_summaries row and every answers row has the form_id of a form that    *)
(* exists; and a request in the race either completes before the delete or  *)
(* stores nothing.                                                          *)
C11_RaceKeepsIntegrity ==
    []ReferentialIntegrity /\ [][LateRequestStoresNothing]_vars

====
